---- MODULE Spec2Model ----
(***************************************************************************)
(* Model of main.py: the FastAPI application "Arivar API".                 *)
(*                                                                         *)
(*   create_lead    POST /api/leads   lead intake                          *)
(*   test_database  GET  /test        connectivity prober                  *)
(*   get_schema     GET  /schema      schema catalog                       *)
(*                                                                         *)
(* read_root and hello return a literal and touch no state; they are left  *)
(* out.                                                                    *)
(*                                                                         *)
(* The modules `database` and `schemas` are collaborators: the model keeps *)
(* only what main.py observes of them (an import that succeeds or raises,  *)
(* a call that returns or raises).                                         *)
(***************************************************************************)
EXTENDS Integers, Sequences, FiniteSets, TLC

\* ------------------------------------------------------------------ bounds
\* Worker threads serving POST /api/leads at the same time.
NumWorkers == 2
\* POST /api/leads requests accepted in one behaviour.
MaxRequests == 3

Workers == 1..NumWorkers

\* Python's None, as a string so that it compares with every other value.
None == "None"

VARIABLES
    schemas_mod,      \* what importing `schemas` does: "ok" | "ImportError" | "RuntimeError"
    database_mod,     \* what importing `database` does: "ok" | "ImportError" | "RuntimeError"
    db,               \* database.db: None or "live"
    Lead,             \* main.Lead: "Lead" (the class) or None
    create_document,  \* main.create_document: "create_document" or None
    docs,             \* the documents the database holds, in creation order
    pc,               \* pc[w]: where worker w stands in create_lead
    lead,             \* lead[w]: the payload of the request worker w serves
    lead_model,       \* lead_model[w]: the validated Lead, once built
    result,           \* result[w]: the HTTP outcome of worker w's request
    calls,            \* calls[w]: the create_document calls of this request
    validations,      \* validations[w]: Lead(**lead) attempts of this request
    accepted,         \* requests accepted so far
    returned_ok,      \* requests that ended 200 so far
    probe,            \* what the last GET /test met: import, handle, environment
    response,         \* what the last GET /test returned
    exports,          \* what the last GET /schema found in dir(schemas)
    catalog           \* what the last GET /schema returned

lead_vars == <<docs, pc, lead, lead_model, result, calls, validations, accepted, returned_ok>>
wiring_vars == <<schemas_mod, database_mod, db, Lead, create_document>>
probe_vars == <<probe, response>>
catalog_vars == <<exports, catalog>>
vars == <<wiring_vars, lead_vars, probe_vars, catalog_vars>>

\* ------------------------------------------------- collaborators (schemas)
\* A JSON value of a payload: its JSON type and its text.
JStr(s) == <<"str", s>>
JInt(s) == <<"int", s>>

\* The payloads a client posts. A payload is a JSON object (mapping = TRUE,
\* with its fields) or some other JSON value (mapping = FALSE).
Object(f) == [mapping |-> TRUE, fields |-> f]
NotAnObject == [mapping |-> FALSE, fields |-> <<>>]

PayloadAda == Object([name |-> JStr("Ada"), email |-> JStr("ada@example.com")])
PayloadBob == Object([name |-> JStr("Bob"), email |-> JStr("bob@example.com"),
                      utm |-> JStr("newsletter")])
PayloadNoEmail == Object([name |-> JStr("Ada")])
PayloadBadType == Object([name |-> JInt("7"), email |-> JStr("ada@example.com")])
PayloadBadEmail == Object([name |-> JStr("Ada"), email |-> JStr("not-an-email")])

Payloads ==
    {PayloadAda, PayloadBob, PayloadNoEmail, PayloadBadType, PayloadBadEmail, NotAnObject}

LeadFields == {"name", "email"}
NoModel == [name |-> "", email |-> ""]
Emails == {"ada@example.com", "bob@example.com"}

\* Lead(**lead): the validated model, or the exception the call raises.
\* `**lead` needs a mapping; the schema requires name and email, both
\* strings, the email well-formed; fields the schema does not declare are
\* ignored.
LeadCall(payload) ==
    IF ~payload.mapping
    THEN [raised |-> TRUE, message |-> "argument after ** must be a mapping", model |-> NoModel]
    ELSE LET f == payload.fields IN
         IF \E k \in LeadFields : k \notin DOMAIN f
         THEN [raised |-> TRUE, message |-> "Field required", model |-> NoModel]
         ELSE IF \E k \in LeadFields : f[k][1] # "str"
         THEN [raised |-> TRUE, message |-> "Input should be a valid string", model |-> NoModel]
         ELSE IF f["email"][2] \notin Emails
         THEN [raised |-> TRUE, message |-> "value is not a valid email address", model |-> NoModel]
         ELSE [raised |-> FALSE, message |-> "",
               model |-> [name |-> f["name"][2], email |-> f["email"][2]]]

\* ------------------------------------------------ collaborators (database)
\* What a create_document call can raise; a call that raises stores nothing.
StorageErrors == {"connection lost", "write rejected"}

\* The identifier the database generates for its n-th document.
NewId(n) == "oid" \o ToString(n)

\* create_document(kind, value) against the collection `store`: every way the
\* call can end. It either inserts one document and returns its id, or
\* raises and leaves the collection as it was.
CreateDocumentCall(kind, value, store) ==
    {[raised |-> FALSE, message |-> "", id |-> NewId(Len(store) + 1),
      store |-> Append(store, [kind |-> kind, value |-> value,
                               id |-> NewId(Len(store) + 1)])]}
    \cup {[raised |-> TRUE, message |-> e, id |-> "", store |-> store] : e \in StorageErrors}

\* ---------------------------------------------------------------- startup
\* Lines 73-78: both names are bound only if both imports succeed.
ModuleImports(sm, dm) ==
    IF sm = "ok" /\ dm = "ok"
    THEN [Lead |-> "Lead", create_document |-> "create_document"]
    ELSE [Lead |-> None, create_document |-> None]

\* An import returns, or raises ImportError, or raises some other exception
\* (here RuntimeError) while the module's top level runs.
ImportOutcomes == {"ok", "ImportError", "RuntimeError"}

NoResult == [status |-> 0, detail |-> "", body |-> [status |-> "", id |-> ""]]

InitWiring ==
    /\ schemas_mod \in ImportOutcomes
    /\ database_mod \in ImportOutcomes
    /\ db \in (IF database_mod = "ok" THEN {None, "live"} ELSE {None})
    /\ Lead = ModuleImports(schemas_mod, database_mod).Lead
    /\ create_document = ModuleImports(schemas_mod, database_mod).create_document

InitIntake ==
    /\ docs = <<>>
    /\ pc = [w \in Workers |-> "idle"]
    /\ lead = [w \in Workers |-> NotAnObject]
    /\ lead_model = [w \in Workers |-> NoModel]
    /\ result = [w \in Workers |-> NoResult]
    /\ calls = [w \in Workers |-> <<>>]
    /\ validations = [w \in Workers |-> 0]
    /\ accepted = 0
    /\ returned_ok = 0

\* ------------------------------------------------------------ create_lead
HTTPException(status_code, detail) ==
    [status |-> status_code, detail |-> detail, body |-> [status |-> "", id |-> ""]]

Ok(body) == [status |-> 200, detail |-> "", body |-> body]

\* create_lead_begin without the test of line 84.
create_lead_begin_unchecked(w, payload) ==
    /\ pc[w] \in {"idle", "done"}
    /\ accepted < MaxRequests
    /\ accepted' = accepted + 1
    /\ lead' = [lead EXCEPT ![w] = payload]
    /\ lead_model' = [lead_model EXCEPT ![w] = NoModel]
    /\ calls' = [calls EXCEPT ![w] = <<>>]
    /\ validations' = [validations EXCEPT ![w] = 0]
    /\ result' = [result EXCEPT ![w] = NoResult]
    /\ pc' = [pc EXCEPT ![w] = "validate"]
    /\ UNCHANGED <<wiring_vars, docs, returned_ok, probe_vars, catalog_vars>>

\* Lines 82-85: a request arrives at worker w; the wiring is tested first.
create_lead_begin(w, payload) ==
    /\ pc[w] \in {"idle", "done"}
    /\ accepted < MaxRequests
    /\ accepted' = accepted + 1
    /\ lead' = [lead EXCEPT ![w] = payload]
    /\ lead_model' = [lead_model EXCEPT ![w] = NoModel]
    /\ calls' = [calls EXCEPT ![w] = <<>>]
    /\ validations' = [validations EXCEPT ![w] = 0]
    /\ IF Lead = None \/ create_document = None
       THEN /\ result' = [result EXCEPT ![w] = HTTPException(500, "Database not configured")]
            /\ pc' = [pc EXCEPT ![w] = "done"]
       ELSE /\ result' = [result EXCEPT ![w] = NoResult]
            /\ pc' = [pc EXCEPT ![w] = "validate"]
    /\ UNCHANGED <<wiring_vars, docs, returned_ok, probe_vars, catalog_vars>>

\* create_lead_validate with the validation error swallowed: the request goes
\* on to the persistence call with whatever was built.
create_lead_validate_swallowed(w) ==
    /\ pc[w] = "validate"
    /\ validations' = [validations EXCEPT ![w] = @ + 1]
    /\ lead_model' = [lead_model EXCEPT ![w] = LeadCall(lead[w]).model]
    /\ pc' = [pc EXCEPT ![w] = "persist"]
    /\ UNCHANGED <<wiring_vars, docs, lead, result, calls, accepted, returned_ok,
                   probe_vars, catalog_vars>>

\* Lines 87-91: build the Lead; any exception becomes a 422.
create_lead_validate(w) ==
    /\ pc[w] = "validate"
    /\ validations' = [validations EXCEPT ![w] = @ + 1]
    /\ LET r == LeadCall(lead[w]) IN
       IF r.raised
       THEN /\ result' = [result EXCEPT ![w] = HTTPException(422, r.message)]
            /\ pc' = [pc EXCEPT ![w] = "done"]
            /\ UNCHANGED lead_model
       ELSE /\ lead_model' = [lead_model EXCEPT ![w] = r.model]
            /\ pc' = [pc EXCEPT ![w] = "persist"]
            /\ UNCHANGED result
    /\ UNCHANGED <<wiring_vars, docs, lead, calls, accepted, returned_ok,
                   probe_vars, catalog_vars>>

\* create_lead_persist that drops the id create_document returned.
create_lead_persist_no_id(w) ==
    /\ pc[w] = "persist"
    /\ \E o \in CreateDocumentCall("lead", lead_model[w], docs) :
          /\ calls' = [calls EXCEPT ![w] =
                          Append(@, [kind |-> "lead", value |-> lead_model[w],
                                     raised |-> o.raised, message |-> o.message,
                                     id |-> o.id])]
          /\ docs' = o.store
          /\ IF o.raised
             THEN /\ result' = [result EXCEPT ![w] = HTTPException(500, o.message)]
                  /\ UNCHANGED returned_ok
             ELSE /\ result' = [result EXCEPT ![w] = Ok([status |-> "ok", id |-> ""])]
                  /\ returned_ok' = returned_ok + 1
    /\ pc' = [pc EXCEPT ![w] = "done"]
    /\ UNCHANGED <<wiring_vars, lead, lead_model, validations, accepted,
                   probe_vars, catalog_vars>>

\* create_lead_persist with one retry after a failed create_document call.
create_lead_persist_retry(w) ==
    /\ pc[w] = "persist"
    /\ \E o1 \in CreateDocumentCall("lead", lead_model[w], docs) :
       \E o2 \in CreateDocumentCall("lead", lead_model[w], o1.store) :
          LET first == [kind |-> "lead", value |-> lead_model[w], raised |-> o1.raised,
                        message |-> o1.message, id |-> o1.id]
              second == [kind |-> "lead", value |-> lead_model[w], raised |-> o2.raised,
                         message |-> o2.message, id |-> o2.id]
              o == IF o1.raised THEN o2 ELSE o1
          IN  /\ calls' = [calls EXCEPT ![w] =
                              IF o1.raised THEN <<first, second>> ELSE <<first>>]
              /\ docs' = o.store
              /\ IF o.raised
                 THEN /\ result' = [result EXCEPT ![w] = HTTPException(500, o.message)]
                      /\ UNCHANGED returned_ok
                 ELSE /\ result' = [result EXCEPT ![w] = Ok([status |-> "ok", id |-> o.id])]
                      /\ returned_ok' = returned_ok + 1
    /\ pc' = [pc EXCEPT ![w] = "done"]
    /\ UNCHANGED <<wiring_vars, lead, lead_model, validations, accepted,
                   probe_vars, catalog_vars>>

\* create_lead_persist that answers a repeated submission with the id of the
\* document already stored instead of creating another.
create_lead_persist_dedup(w) ==
    /\ pc[w] = "persist"
    /\ IF \E i \in 1..Len(docs) : docs[i].value = lead_model[w]
       THEN LET i == CHOOSE j \in 1..Len(docs) : docs[j].value = lead_model[w] IN
            /\ result' = [result EXCEPT ![w] = Ok([status |-> "ok", id |-> docs[i].id])]
            /\ returned_ok' = returned_ok + 1
            /\ UNCHANGED <<calls, docs>>
       ELSE \E o \in CreateDocumentCall("lead", lead_model[w], docs) :
            /\ calls' = [calls EXCEPT ![w] =
                            Append(@, [kind |-> "lead", value |-> lead_model[w],
                                       raised |-> o.raised, message |-> o.message,
                                       id |-> o.id])]
            /\ docs' = o.store
            /\ IF o.raised
               THEN /\ result' = [result EXCEPT ![w] = HTTPException(500, o.message)]
                    /\ UNCHANGED returned_ok
               ELSE /\ result' = [result EXCEPT ![w] = Ok([status |-> "ok", id |-> o.id])]
                    /\ returned_ok' = returned_ok + 1
    /\ pc' = [pc EXCEPT ![w] = "done"]
    /\ UNCHANGED <<wiring_vars, lead, lead_model, validations, accepted,
                   probe_vars, catalog_vars>>

\* Lines 93-97: one create_document call; its id is returned, its exception
\* becomes a 500.
create_lead_persist(w) ==
    /\ pc[w] = "persist"
    /\ \E o \in CreateDocumentCall("lead", lead_model[w], docs) :
          /\ calls' = [calls EXCEPT ![w] =
                          Append(@, [kind |-> "lead", value |-> lead_model[w],
                                     raised |-> o.raised, message |-> o.message,
                                     id |-> o.id])]
          /\ docs' = o.store
          /\ IF o.raised
             THEN /\ result' = [result EXCEPT ![w] = HTTPException(500, o.message)]
                  /\ UNCHANGED returned_ok
             ELSE /\ result' = [result EXCEPT ![w] = Ok([status |-> "ok", id |-> o.id])]
                  /\ returned_ok' = returned_ok + 1
    /\ pc' = [pc EXCEPT ![w] = "done"]
    /\ UNCHANGED <<wiring_vars, lead, lead_model, validations, accepted,
                   probe_vars, catalog_vars>>

NextIntake ==
    \/ \E w \in Workers, payload \in Payloads : create_lead_begin(w, payload)
    \/ \E w \in Workers : create_lead_validate(w)
    \/ \E w \in Workers : create_lead_persist(w)

\* ---------------------------------------------------------- test_database
\* Line 53: collections[:10].
CollectionsShown == 10
\* Lines 56 and 63: str(e)[:50].
ErrorChars == 50

\* The longest error message and the longest listing the model draws.
MaxMessage == 60
MaxListing == 12

\* Python's s[:n], of a string or of a list.
Slice(s, n) == SubSeq(s, 1, IF Len(s) < n THEN Len(s) ELSE n)

\* The exception classes the collaborators raise, and isinstance against the
\* classes main.py names in its except clauses.
ExceptionClasses == {"ImportError", "AttributeError", "RuntimeError"}
IsInstance(cls, base) ==
    \/ cls = base
    \/ base = "Exception" /\ cls \in ExceptionClasses

\* A message of n characters.
RECURSIVE Pad(_)
Pad(n) == IF n = 0 THEN "" ELSE Pad(n - 1) \o ToString(n % 10)

ErrorMessages ==
    {"connection refused"} \cup {Pad(n) : n \in {0, ErrorChars - 1, ErrorChars, ErrorChars + 1, MaxMessage}}

\* What reading db.name does: it returns the name, or raises.
NameReads ==
    {[exc |-> "none", value |-> "arivar", message |-> ""],
     [exc |-> "AttributeError", value |-> "", message |-> "no attribute name"],
     [exc |-> "ImportError", value |-> "", message |-> "No module named pymongo"]}
    \cup {[exc |-> "RuntimeError", value |-> "", message |-> m] : m \in ErrorMessages}
NoNameRead == [exc |-> "none", value |-> "", message |-> ""]

\* What db.list_collection_names() does: it returns n names, in either
\* order, or raises.
CollectionName(i) == "coll" \o ToString(i)
Listings ==
    {[exc |-> "none", names |-> [i \in 1..n |-> CollectionName(i)], message |-> ""] : n \in 0..MaxListing}
    \cup {[exc |-> "none", names |-> [i \in 1..n |-> CollectionName(n + 1 - i)], message |-> ""] : n \in 0..MaxListing}
    \cup {[exc |-> c, names |-> <<>>, message |-> m] : c \in {"RuntimeError", "ImportError"}, m \in ErrorMessages}
NoListing == [exc |-> "none", names |-> <<>>, message |-> ""]

\* os.getenv: None when the variable is unset, else its value.
EnvValues == {None, "", "mongodb://localhost:27017"}

\* Everything one GET /test request can meet. Inputs the handler cannot
\* reach (the name of a handle that is None, the listing after the name read
\* raised) are left at their defaults.
ProbeInputs(dm, handle) ==
    {[imported |-> dm, import_message |-> m, db |-> handle, name |-> nm, listing |-> ls,
      DATABASE_URL |-> url, DATABASE_NAME |-> dbn] :
        m \in (IF dm = "RuntimeError" THEN ErrorMessages ELSE {""}),
        nm \in (IF dm = "ok" /\ handle # None THEN NameReads ELSE {NoNameRead}),
        ls \in Listings \cup {NoListing}, url \in EnvValues, dbn \in EnvValues}

ProbeReachesListing(p) ==
    p.imported = "ok" /\ p.db # None /\ p.name.exc \in {"none", "AttributeError"}

\* Lines 31-38 (the emoji that starts each label is left out).
Response0 ==
    [backend |-> "Running", database |-> "Not Available", database_url |-> None,
     database_name |-> None, connection_status |-> "Not Connected", collections |-> <<>>]

\* How a block of the handler ends: it falls through, or an exception leaves it.
Returned(r) == [exc |-> "none", message |-> "", response |-> r]
Raised(cls, message, r) == [exc |-> cls, message |-> message, response |-> r]

\* ListCollections without the [:10] of line 53.
ListCollectionsUncut(r, listing) ==
    IF listing.exc = "none"
    THEN Returned([r EXCEPT !.collections = listing.names,
                            !.database = "Connected & Working"])
    ELSE IF IsInstance(listing.exc, "Exception")
    THEN Returned([r EXCEPT !.database =
                       "Connected but Error: " \o Slice(listing.message, ErrorChars)])
    ELSE Raised(listing.exc, listing.message, r)

\* Lines 50-56: the listing and its own try/except.
ListCollections(r, listing) ==
    IF listing.exc = "none"
    THEN Returned([r EXCEPT !.collections = Slice(listing.names, CollectionsShown),
                            !.database = "Connected & Working"])
    ELSE IF IsInstance(listing.exc, "Exception")
    THEN Returned([r EXCEPT !.database =
                       "Connected but Error: " \o Slice(listing.message, ErrorChars)])
    ELSE Raised(listing.exc, listing.message, r)

\* Lines 42-58: the body of the outer try. hasattr(db, 'name') is False when
\* the read raises AttributeError and lets every other exception through.
ProbeBody(p) ==
    IF p.imported # "ok"
    THEN Raised(p.imported, p.import_message, Response0)
    ELSE IF p.db # None
    THEN LET r1 == [Response0 EXCEPT !.database = "Available",
                                     !.database_url = "Configured"]
         IN  IF p.name.exc \notin {"none", "AttributeError"}
             THEN Raised(p.name.exc, p.name.message, r1)
             ELSE ListCollections(
                      [r1 EXCEPT !.database_name =
                                     IF p.name.exc = "none" THEN p.name.value ELSE "Connected",
                                 !.connection_status = "Connected"],
                      p.listing)
    ELSE Returned([Response0 EXCEPT !.database = "Available but not initialized"])

\* HandleProbeError with only the ImportError clause.
HandleProbeErrorImportOnly(b) ==
    IF b.exc = "none"
    THEN b
    ELSE IF IsInstance(b.exc, "ImportError")
    THEN Returned([b.response EXCEPT !.database =
                       "Database module not found (run enable-database first)"])
    ELSE b

\* HandleProbeError with its two clauses in the other order.
HandleProbeErrorSwapped(b) ==
    IF b.exc = "none"
    THEN b
    ELSE IF IsInstance(b.exc, "Exception")
    THEN Returned([b.response EXCEPT !.database = "Error: " \o Slice(b.message, ErrorChars)])
    ELSE IF IsInstance(b.exc, "ImportError")
    THEN Returned([b.response EXCEPT !.database =
                       "Database module not found (run enable-database first)"])
    ELSE b

\* Lines 60-63: the except clauses of the outer try, in their order.
HandleProbeError(b) ==
    IF b.exc = "none"
    THEN b
    ELSE IF IsInstance(b.exc, "ImportError")
    THEN Returned([b.response EXCEPT !.database =
                       "Database module not found (run enable-database first)"])
    ELSE IF IsInstance(b.exc, "Exception")
    THEN Returned([b.response EXCEPT !.database = "Error: " \o Slice(b.message, ErrorChars)])
    ELSE b

\* CheckEnvironment that fills only the fields the probe left at None.
CheckEnvironmentIfUnset(r, p) ==
    [r EXCEPT !.database_url =
                  IF r.database_url # None THEN r.database_url
                  ELSE IF p.DATABASE_URL \notin {None, ""} THEN "Set" ELSE "Not Set",
              !.database_name =
                  IF r.database_name # None THEN r.database_name
                  ELSE IF p.DATABASE_NAME \notin {None, ""} THEN "Set" ELSE "Not Set"]

\* Lines 65-67: the environment flags.
CheckEnvironment(r, p) ==
    [r EXCEPT !.database_url = IF p.DATABASE_URL \notin {None, ""} THEN "Set" ELSE "Not Set",
              !.database_name = IF p.DATABASE_NAME \notin {None, ""} THEN "Set" ELSE "Not Set"]

\* Lines 29-69: what GET /test ends with: the report, or an exception that
\* leaves the handler.
test_database(p) ==
    LET b == HandleProbeError(ProbeBody(p)) IN
    IF b.exc # "none"
    THEN [called |-> TRUE, raised |-> TRUE, body |-> b.response]
    ELSE [called |-> TRUE, raised |-> FALSE, body |-> CheckEnvironment(b.response, p)]

NoResponse == [called |-> FALSE, raised |-> FALSE, body |-> Response0]

InitProbe ==
    /\ probe \in ProbeInputs(database_mod, db)
    /\ ProbeReachesListing(probe) \/ probe.listing = NoListing
    /\ response = NoResponse

\* GET /test is served.
test_database_call ==
    /\ response' = test_database(probe)
    /\ UNCHANGED <<wiring_vars, lead_vars, probe, catalog_vars>>

NextProber == test_database_call

\* ------------------------------------------------------------- get_schema
\* The most names dir(schemas) holds in the model.
MaxExports == 4

\* What a name of the schemas module is bound to: pydantic's BaseModel
\* itself, a class derived from it, such a class whose model_json_schema()
\* raises, a class not derived from it, or something that is no class.
ExportKinds == {"BaseModel", "model", "broken_model", "class", "value"}
ExportName(i) == "Name" \o ToString(i)

\* dir(schemas): the names in sorted order, each with what it is bound to.
ExportLists ==
    UNION {{[i \in 1..n |-> [name |-> ExportName(i), kind |-> k[i]]] :
               k \in [1..n -> ExportKinds]} : n \in 0..MaxExports}

\* Line 108: the three tests of the filter.
IsType(obj) == obj.kind \in {"BaseModel", "model", "broken_model", "class"}
IsSubclassOfBaseModel(obj) == obj.kind \in {"BaseModel", "model", "broken_model"}
IsBaseModel(obj) == obj.kind = "BaseModel"

\* obj.model_json_schema(): the structural description, or an exception.
ModelJsonSchema(obj) ==
    IF obj.kind = "broken_model"
    THEN [raised |-> TRUE, schema |-> [title |-> "", type |-> ""]]
    ELSE [raised |-> FALSE, schema |-> [title |-> obj.name, type |-> "object"]]

EmptyDict == [n \in {} |-> [title |-> "", type |-> ""]]

\* Lines 106-109: the loop from the i-th name on, `built` being the
\* mapping collected so far; an exception leaves the loop at once.
RECURSIVE SchemaLoop(_, _, _)
SchemaLoop(names, i, built) ==
    IF i > Len(names)
    THEN [raised |-> FALSE, result |-> built]
    ELSE LET obj == names[i] IN
         IF IsType(obj) /\ IsSubclassOfBaseModel(obj) /\ ~IsBaseModel(obj)
         THEN LET s == ModelJsonSchema(obj) IN
              IF s.raised
              THEN [raised |-> TRUE, result |-> built]
              ELSE SchemaLoop(names, i + 1, (obj.name :> s.schema) @@ built)
         ELSE SchemaLoop(names, i + 1, built)

\* get_schema whose except clause returns what the loop had collected.
get_schema_partial(sm, names) ==
    IF sm # "ok"
    THEN [called |-> TRUE, raised |-> FALSE, result |-> EmptyDict]
    ELSE [called |-> TRUE, raised |-> FALSE, result |-> SchemaLoop(names, 1, EmptyDict).result]

\* Lines 103-112: the import, the loop, and the except clause that turns
\* every exception into {}.
get_schema(sm, names) ==
    IF sm # "ok"
    THEN [called |-> TRUE, raised |-> FALSE, result |-> EmptyDict]
    ELSE LET r == SchemaLoop(names, 1, EmptyDict) IN
         IF r.raised
         THEN [called |-> TRUE, raised |-> FALSE, result |-> EmptyDict]
         ELSE [called |-> TRUE, raised |-> FALSE, result |-> r.result]

NoCatalog == [called |-> FALSE, raised |-> FALSE, result |-> EmptyDict]

InitCatalog ==
    /\ exports \in (IF schemas_mod = "ok" THEN ExportLists ELSE {<<>>})
    /\ catalog = NoCatalog

\* GET /schema is served.
get_schema_call ==
    /\ catalog' = get_schema(schemas_mod, exports)
    /\ UNCHANGED <<wiring_vars, lead_vars, probe_vars, exports>>

NextCatalog == get_schema_call

\* ---------------------------------------------------------- specifications
\* The handlers write no variable in common, so each endpoint has the
\* specification of its own requests: SpecIntake interleaves the workers of
\* POST /api/leads; SpecProber and SpecCatalog draw in their initial states
\* everything one GET /test or GET /schema request can meet and serve it.
\* No GET /test and no GET /schema request is about.
IdleProbe ==
    /\ probe = [imported |-> database_mod, import_message |-> "", db |-> db,
                name |-> NoNameRead, listing |-> NoListing,
                DATABASE_URL |-> None, DATABASE_NAME |-> None]
    /\ response = NoResponse
IdleCatalog == exports = <<>> /\ catalog = NoCatalog

InitForIntake == InitWiring /\ InitIntake /\ IdleProbe /\ IdleCatalog
InitForProber == InitWiring /\ InitIntake /\ InitProbe /\ IdleCatalog
InitForCatalog == InitWiring /\ InitIntake /\ IdleProbe /\ InitCatalog

SpecIntake == InitForIntake /\ [][NextIntake]_vars
SpecProber == InitForProber /\ [][NextProber]_vars
SpecCatalog == InitForCatalog /\ [][NextCatalog]_vars

\* ----------------------------------------------------------------- claims
Wired == Lead # None /\ create_document # None
Valid(payload) == ~LeadCall(payload).raised
Min(a, b) == IF a < b THEN a ELSE b

\* C1: with Lead and create_document wired, a request whose payload the Lead
\* schema rejects makes no create_document call at any point, ends 422 with
\* the validator's message, and every stored document holds the Lead of a
\* payload the schema accepts.
C1_InvalidPayloadNeverStored ==
    /\ \A w \in Workers :
          (pc[w] # "idle" /\ Wired /\ ~Valid(lead[w])) =>
             /\ Len(calls[w]) = 0
             /\ pc[w] \in {"validate", "done"}
             /\ pc[w] = "done" => result[w] = HTTPException(422, LeadCall(lead[w]).message)
    /\ \A i \in 1..Len(docs) :
          \E payload \in Payloads : Valid(payload) /\ docs[i].value = LeadCall(payload).model

C1_Witness ==
    \E w \in Workers :
       /\ pc[w] = "done" /\ Wired /\ lead[w] = PayloadNoEmail
       /\ result[w].status = 422
       /\ Len(docs) > 0

\* C2 as stated: every valid payload ends 200 with {status: "ok", id} and a
\* non-empty id, after exactly one create_document("lead", lead_model) call.
C2_ValidPayloadAlwaysReturns200 ==
    \A w \in Workers :
       (pc[w] = "done" /\ Wired /\ Valid(lead[w])) =>
          /\ result[w].status = 200
          /\ result[w].body.status = "ok"
          /\ result[w].body.id # ""
          /\ Len(calls[w]) = 1
          /\ calls[w][1].kind = "lead"
          /\ calls[w][1].value = LeadCall(lead[w]).model

\* C2 amended: with both collaborators wired, a valid payload leads to exactly
\* one create_document call, with kind "lead" and the validated Lead; when
\* that call returns, the request ends 200 with {status: "ok", id: the id the
\* call returned}, the id is not empty and the database holds the document.
C2_ValidPayloadStoredOnce ==
    \A w \in Workers :
       (pc[w] = "done" /\ Wired /\ Valid(lead[w])) =>
          /\ Len(calls[w]) = 1
          /\ calls[w][1].kind = "lead"
          /\ calls[w][1].value = LeadCall(lead[w]).model
          /\ ~calls[w][1].raised =>
                /\ result[w] = Ok([status |-> "ok", id |-> calls[w][1].id])
                /\ result[w].body.id # ""
                /\ \E i \in 1..Len(docs) :
                      docs[i] = [kind |-> "lead", value |-> LeadCall(lead[w]).model,
                                 id |-> result[w].body.id]

C2_Witness ==
    \E w \in Workers :
       /\ pc[w] = "done" /\ Wired /\ lead[w] = PayloadBob
       /\ result[w].status = 200
       /\ Len(docs) = 1 /\ docs[1].value = [name |-> "Bob", email |-> "bob@example.com"]

\* C3: Lead and create_document are unwired together, exactly when one of the
\* two imports failed at startup; then every request, whatever its payload,
\* ends 500 "Database not configured" at once, with no validation attempted
\* and no create_document call.
C3_UnwiredFailsBeforePayload ==
    /\ (Lead = None) <=> (create_document = None)
    /\ (Lead = None) <=> (schemas_mod # "ok" \/ database_mod # "ok")
    /\ ~Wired =>
          /\ docs = <<>>
          /\ \A w \in Workers :
                pc[w] # "idle" =>
                   /\ pc[w] = "done"
                   /\ result[w] = HTTPException(500, "Database not configured")
                   /\ validations[w] = 0
                   /\ Len(calls[w]) = 0

C3_Witness ==
    /\ schemas_mod = "ok" /\ database_mod = "RuntimeError"
    /\ \E w, v \in Workers :
          /\ pc[w] = "done" /\ lead[w] = PayloadAda /\ result[w].status = 500
          /\ pc[v] = "done" /\ lead[v] = NotAnObject /\ result[v].status = 500

\* C4: when the create_document call of a request raises, the request ends
\* 500 with that exception's message and the call is the only one the
\* request made: no retry, no success response.
C4_StorageErrorNotRetried ==
    \A w \in Workers :
       (pc[w] = "done" /\ Len(calls[w]) > 0 /\ calls[w][1].raised) =>
          /\ Len(calls[w]) = 1
          /\ result[w] = HTTPException(500, calls[w][1].message)
          /\ result[w].status # 200

C4_Witness ==
    \E w \in Workers :
       /\ pc[w] = "done" /\ Valid(lead[w])
       /\ Len(calls[w]) = 1 /\ calls[w][1].raised /\ calls[w][1].message = "write rejected"
       /\ result[w].status = 500

\* What one step of worker w may change: nothing of another request, and the
\* stored documents only by appending one when the request ends 200.
C5_StepOfOneRequest ==
    \A w \in Workers :
       pc'[w] # pc[w] =>
          /\ \A v \in Workers \ {w} :
                /\ pc'[v] = pc[v] /\ lead'[v] = lead[v] /\ lead_model'[v] = lead_model[v]
                /\ result'[v] = result[v] /\ calls'[v] = calls[v]
          /\ Len(docs') = Len(docs) + (IF result'[w].status = 200 THEN 1 ELSE 0)
          /\ \A i \in 1..Len(docs) : docs'[i] = docs[i]

\* C5: under every interleaving of the workers, the database holds as many
\* documents as requests returned 200 (equal payloads included); a step of
\* one request changes nothing of another request and adds one document
\* exactly when it ends 200; no step rebinds db, Lead or create_document.
C5_ConcurrentSubmissionsIndependent ==
    /\ [](Len(docs) = returned_ok)
    /\ [][C5_StepOfOneRequest /\ UNCHANGED wiring_vars]_vars

C5_Witness ==
    /\ Len(docs) = 2 /\ docs[1].value = docs[2].value /\ docs[1].id # docs[2].id
    /\ returned_ok = 2
    /\ \A w \in Workers : w <= 2 => pc[w] = "done" /\ result[w].status = 200

ReportFields ==
    {"backend", "database", "database_url", "database_name", "connection_status",
     "collections"}
ModuleNotFound == "Database module not found (run enable-database first)"
NameReadReturns(p) == p.name.exc \in {"none", "AttributeError"}
FlagOf(value) == IF value = None \/ value = "" THEN "Not Set" ELSE "Set"

\* C6: whatever the import, the handle, the read of its name and the listing
\* do, GET /test returns a report with its six fields, no exception leaves
\* the handler, and nothing is stored.
C6_ProbeIsTotal ==
    response.called =>
       /\ ~response.raised
       /\ DOMAIN response.body = ReportFields
       /\ response.body.backend = "Running"
       /\ docs = <<>> /\ \A w \in Workers : Len(calls[w]) = 0

C6_Witness ==
    /\ response.called /\ ~response.raised
    /\ probe.imported = "ok" /\ probe.db # None /\ probe.name.exc = "RuntimeError"
    /\ response.body.database = "Error: " \o probe.name.message

\* C7 as stated: whenever the import of the database module raises, for any
\* reason, the report says "module not found", "Not Connected" and no
\* collections.
C7_AnyImportFailureIsModuleNotFound ==
    (response.called /\ probe.imported # "ok") =>
       /\ response.body.database = ModuleNotFound
       /\ response.body.connection_status = "Not Connected"
       /\ response.body.collections = <<>>

\* C7 amended: when the import raises ImportError the report says "module not
\* found" with the hint, "Not Connected" and no collections; when it raises
\* another exception the database field is "Error: " and the first 50
\* characters of its message; and "module not found" is reported only when an
\* ImportError reached the outer handler, from the import or from the read of
\* the handle's name, always with "Not Connected" and no collections.
C7_ImportErrorIsModuleNotFound ==
    response.called =>
       /\ probe.imported = "ImportError" => response.body.database = ModuleNotFound
       /\ probe.imported = "RuntimeError" =>
             /\ response.body.database =
                   "Error: " \o SubSeq(probe.import_message, 1,
                                       Min(ErrorChars, Len(probe.import_message)))
             /\ response.body.connection_status = "Not Connected"
             /\ response.body.collections = <<>>
       /\ response.body.database = ModuleNotFound =>
             /\ \/ probe.imported = "ImportError"
                \/ probe.imported = "ok" /\ probe.db # None /\ probe.name.exc = "ImportError"
             /\ response.body.connection_status = "Not Connected"
             /\ response.body.collections = <<>>

C7_Witness ==
    /\ response.called /\ probe.imported = "ImportError"
    /\ response.body.database = ModuleNotFound
    /\ response.body.connection_status = "Not Connected"

\* C8: in every report, database_url and database_name are "Set" exactly when
\* DATABASE_URL and DATABASE_NAME are non-empty and "Not Set" otherwise,
\* whatever the probe of the handle did.
C8_EnvironmentFlagsOnly ==
    response.called =>
       /\ response.body.database_url = FlagOf(probe.DATABASE_URL)
       /\ response.body.database_name = FlagOf(probe.DATABASE_NAME)
       /\ response.body.database_url \in {"Set", "Not Set"}
       /\ response.body.database_name \in {"Set", "Not Set"}

C8_Witness ==
    /\ response.called
    /\ probe.imported = "ok" /\ probe.db # None /\ probe.name = [exc |-> "none", value |-> "arivar", message |-> ""]
    /\ probe.DATABASE_URL = None /\ probe.DATABASE_NAME = "mongodb://localhost:27017"
    /\ response.body.database_url = "Not Set" /\ response.body.database_name = "Set"

\* What C10 says of a handle that is not None (the listing decides) and of
\* one that is None.
C10_ListingDecides ==
    /\ response.body.connection_status = "Connected"
    /\ probe.listing.exc = "none" =>
          /\ response.body.database = "Connected & Working"
          /\ Len(response.body.collections) = Min(CollectionsShown, Len(probe.listing.names))
          /\ \A i \in 1..Len(response.body.collections) :
                response.body.collections[i] = probe.listing.names[i]
    /\ probe.listing.exc # "none" =>
          /\ response.body.database =
                "Connected but Error: "
                \o SubSeq(probe.listing.message, 1, Min(ErrorChars, Len(probe.listing.message)))
          /\ response.body.collections = <<>>

C10_NullHandle ==
    /\ response.body.database = "Available but not initialized"
    /\ response.body.connection_status = "Not Connected"
    /\ response.body.collections = <<>>

ModelNames ==
    {exports[i].name : i \in {j \in 1..Len(exports) : exports[j].kind \in {"model", "broken_model"}}}

\* C9: GET /schema never fails; it returns {} when the schemas module cannot
\* be imported or when model_json_schema() of any class raises, and otherwise
\* one entry per name bound to a class derived from BaseModel, none for
\* BaseModel itself or for any other name.
C9_CatalogAllOrNothing ==
    catalog.called =>
       /\ ~catalog.raised
       /\ IF schemas_mod # "ok" \/ \E i \in 1..Len(exports) : exports[i].kind = "broken_model"
          THEN DOMAIN catalog.result = {}
          ELSE /\ DOMAIN catalog.result = ModelNames
               /\ \A n \in DOMAIN catalog.result :
                     catalog.result[n] = [title |-> n, type |-> "object"]

C9_Witness ==
    /\ catalog.called /\ schemas_mod = "ok" /\ Len(exports) = 3
    /\ exports[1].kind = "model" /\ exports[2].kind = "BaseModel"
    /\ exports[3].kind = "broken_model"
    /\ DOMAIN catalog.result = {}

====
